---- MODULE Spec2Model ----
(***************************************************************************)
(* A model of package openapi (src/main.go): the simplified API document,  *)
(* the Swagger 2.0 conversion, ResolveReferences and RenderText.           *)
(*                                                                         *)
(* Strings are sequences of tokens.  A string the code takes apart (a $ref *)
(* descriptor, a component name, an error message, an endpoint             *)
(* description) is a sequence of one-character tokens; a string the code   *)
(* only copies or prints (a name, a type, a response code) is kept as one  *)
(* token.  The empty Go string is "" for a one-token field and <<>> for a  *)
(* character sequence.                                                     *)
(*                                                                         *)
(* Pointers: *Parameter and *MediaType objects are mutated through their   *)
(* pointers (the Schema field is reassigned), so they live in heaps keyed  *)
(* by address.  *Schema, *RequestBody and *Response objects are never      *)
(* written after decoding, so a pointer to one is modelled by the value it *)
(* points to, with a nil flag.                                             *)
(***************************************************************************)
EXTENDS Naturals, Sequences, FiniteSets, TLC

VARIABLES
    doc,        \* the *APIDocument handed to ResolveReferences and RenderText
    paramHeap,  \* address -> Parameter object
    mtHeap,     \* address -> MediaType object
    pc,         \* "idle", or the loop of ResolveReferences that is running
    i,          \* index of the endpoint being resolved (0 when idle)
    j,          \* index of the next parameter slot of that endpoint
    todo,       \* response codes of that endpoint the range has not yet produced
    result,     \* outcome of the last call: "none", "ok", "error", "panic"
    err,        \* the error's message when result = "error"
    calls,      \* number of ResolveReferences calls started
    pre,        \* the document and heaps as they were when the running/last call started
    visited,    \* the slots the running/last call has examined, in order
    text,       \* the last text RenderText returned (<<>>: none)
    prevText,   \* the text RenderText returned before that, on the same document
    renderPanic,\* whether a call of RenderText dereferenced nil
    sw,         \* the SwaggerSpec handed to convertSwaggerToAPIDocument
    pathsLeft   \* the paths of sw.Paths the range has not yet produced

vars == <<doc, paramHeap, mtHeap, pc, i, j, todo, result, err, calls, pre,
          visited, text, prevText, renderPanic, sw, pathsLeft>>

(***************************************************************************)
(* Bounds of the model.                                                    *)
(***************************************************************************)
MaxEndpoints == 2
MaxParams == 2
MaxCalls == 2
MaxPaths == 2

(***************************************************************************)
(* Strings.                                                                *)
(***************************************************************************)
ComponentsPrefix == <<"#","/","c","o","m","p","o","n","e","n","t","s","/">>

ComponentTypeChars(componentType) ==
    CASE componentType = "schemas" -> <<"s","c","h","e","m","a","s">>
      [] componentType = "parameters" -> <<"p","a","r","a","m","e","t","e","r","s">>
      [] componentType = "requestBodies" ->
            <<"r","e","q","u","e","s","t","B","o","d","i","e","s">>
      [] componentType = "responses" -> <<"r","e","s","p","o","n","s","e","s">>

HasPrefix(s, prefix) ==
    Len(s) >= Len(prefix) /\ SubSeq(s, 1, Len(prefix)) = prefix

\* strings.TrimPrefix
TrimPrefix(s, prefix) ==
    IF HasPrefix(s, prefix) THEN SubSeq(s, Len(prefix) + 1, Len(s)) ELSE s

extractNameFromRef(ref, componentType) ==
    TrimPrefix(ref, ComponentsPrefix \o ComponentTypeChars(componentType) \o <<"/">>)

\* strings.Contains
Contains(s, sub) ==
    \E k \in 0..Len(s) : k + Len(sub) <= Len(s) /\ SubSeq(s, k + 1, k + Len(sub)) = sub

\* fmt.Sprintf(label + "%s", ref): the label, then ref as it is.
SprintfRef(label, ref) == <<label>> \o ref

FmtFlags == {"#", "0", "+", "-", " "}

RECURSIVE SkipFlags(_)
SkipFlags(s) ==
    IF s # <<>> /\ Head(s) \in FmtFlags THEN SkipFlags(Tail(s)) ELSE s

\* fmt.Errorf(format) with no operands: the text is copied up to each '%';
\* "%%" prints '%', '%' and a verb print "%!verb(MISSING)", and a '%' that
\* ends the format prints "%!(NOVERB)".  (Flags are skipped; widths,
\* precisions and argument indexes do not occur in the strings of this model.)
RECURSIVE Errorf(_)
Errorf(format) ==
    IF format = <<>> THEN <<>>
    ELSE IF Head(format) # "%" THEN <<Head(format)>> \o Errorf(Tail(format))
    ELSE LET rest == SkipFlags(Tail(format)) IN
         IF rest = <<>> THEN <<"%","!","(","N","O","V","E","R","B",")">>
         ELSE IF Head(rest) = "%" THEN <<"%">> \o Errorf(Tail(rest))
         ELSE <<"%","!",Head(rest),"(","M","I","S","S","I","N","G",")">>
                  \o Errorf(Tail(rest))

(***************************************************************************)
(* Objects.                                                                *)
(***************************************************************************)
Addr(kind, name, a, b, code, media) ==
    [kind |-> kind, name |-> name, a |-> a, b |-> b, code |-> code, media |-> media]

NilAddr == Addr("nil", <<>>, 0, 0, "", "")

\* *Schema
NilSchema == [nil |-> TRUE, Type |-> "", Ref |-> <<>>]
Schema(type, ref) == [nil |-> FALSE, Type |-> type, Ref |-> ref]

\* Parameter
Parameter(name, in, required, type, schema, description, ref) ==
    [Name |-> name, In |-> in, Required |-> required, Type |-> type,
     Schema |-> schema, Description |-> description, Ref |-> ref]

NoContent == [m \in {} |-> NilAddr]

\* *RequestBody and *Response: Content maps a media type to a *MediaType address
NilBody == [nil |-> TRUE, Description |-> "", Content |-> NoContent, Ref |-> <<>>]
Body(description, content, ref) ==
    [nil |-> FALSE, Description |-> description, Content |-> content, Ref |-> ref]

RefTo(componentType, name) ==
    ComponentsPrefix \o ComponentTypeChars(componentType) \o <<"/">> \o name

(***************************************************************************)
(* Addresses.  The decoder allocates one object per JSON/YAML object, so   *)
(* every object is named by the place it was decoded at.                   *)
(***************************************************************************)
SlotParamAddr(e, k) == Addr("ep.param", <<>>, e, k, "", "")
CompParamAddr(name) == Addr("comp.param", name, 0, 0, "", "")
SlotBodyMt(e, media) == Addr("ep.body.mt", <<>>, e, 0, "", media)
SlotRespMt(e, code, media) == Addr("ep.resp.mt", <<>>, e, 0, code, media)
CompBodyMt(name, media) == Addr("comp.body.mt", name, 0, 0, "", media)
CompRespMt(name, media) == Addr("comp.resp.mt", name, 0, 0, "", media)

(***************************************************************************)
(* The documents of the model.  A template is a decoded object with its    *)
(* media types held by value; Alloc* below place them in the heaps.        *)
(***************************************************************************)
JSON == "application/json"
NameS == <<"S">>
NameT == <<"T">>
NameP == <<"P">>
NameQ == <<"Q">>
NameR == <<"R">>
NameN == <<"N">>
NameB == <<"B">>
NameC == <<"C">>
NameD == <<"D">>
NameO == <<"O">>
NameE == <<"E">>
Missing == <<"M">>
Percent == <<"%","a">>

NilMt == [nil |-> TRUE, Schema |-> NilSchema]
Mt(schema) == [nil |-> FALSE, Schema |-> schema]
OneMedia(schema) == [m \in {JSON} |-> Mt(schema)]
NoMedia == [m \in {} |-> NilMt]

NilParamT == [nil |-> TRUE, val |-> Parameter("", "", FALSE, "", NilSchema, "", <<>>)]
ParamT(name, in, required, type, schema, description, ref) ==
    [nil |-> FALSE, val |-> Parameter(name, in, required, type, schema, description, ref)]

\* components (the table every document with components carries)
CompSchemas ==
    [k \in {NameS, NameT, NameN} |->
        CASE k = NameS -> Schema("integer", <<>>)
          [] k = NameT -> Schema("", RefTo("schemas", NameS))
          [] k = NameN -> NilSchema]

CompParamT ==
    [k \in {NameP, NameQ, NameR, NameN} |->
        CASE k = NameP -> ParamT("page", "query", FALSE, "integer", NilSchema, "", <<>>)
          [] k = NameQ -> ParamT("q", "query", TRUE, "",
                                 Schema("", RefTo("schemas", NameS)), "shared",
                                 RefTo("parameters", NameP))
          [] k = NameR -> ParamT("r", "header", FALSE, "",
                                 Schema("", RefTo("schemas", Missing)), "", <<>>)
          [] k = NameN -> NilParamT]

CompBodyT ==
    [k \in {NameB, NameC, NameD, NameN} |->
        CASE k = NameB -> Body("shared body", OneMedia(Schema("", RefTo("schemas", NameS))), <<>>)
          [] k = NameC -> Body("dangling body",
                               OneMedia(Schema("", RefTo("schemas", Missing))), <<>>)
          [] k = NameD -> Body("alias body", NoMedia, RefTo("requestBodies", NameB))
          [] k = NameN -> [NilBody EXCEPT !.Content = NoMedia]]

CompRespT ==
    [k \in {NameO, NameE, NameN} |->
        CASE k = NameO -> Body("OK", OneMedia(Schema("", RefTo("schemas", NameT))), <<>>)
          [] k = NameE -> Body("alias response", NoMedia, RefTo("responses", NameO))
          [] k = NameN -> [NilBody EXCEPT !.Content = NoMedia]]

\* parameter slots
ParamMenu ==
    { NilParamT,
      ParamT("id", "path", TRUE, "string", NilSchema, "", <<>>),
      ParamT("f", "query", FALSE, "", Schema("", RefTo("schemas", NameS)), "filter", <<>>),
      ParamT("g", "query", FALSE, "", Schema("", RefTo("schemas", Missing)), "", <<>>),
      ParamT("local", "cookie", TRUE, "local", NilSchema, "local", RefTo("parameters", NameP)),
      ParamT("", "", FALSE, "", NilSchema, "", RefTo("parameters", NameQ)),
      ParamT("", "", FALSE, "", Schema("", RefTo("schemas", Missing)), "",
             RefTo("parameters", NameP)),
      ParamT("", "", FALSE, "", NilSchema, "", RefTo("parameters", NameR)),
      ParamT("", "", FALSE, "", NilSchema, "", RefTo("parameters", NameN)),
      ParamT("", "", FALSE, "", NilSchema, "", RefTo("parameters", Missing)),
      ParamT("", "", FALSE, "", NilSchema, "", RefTo("parameters", Percent)),
      ParamT("", "", FALSE, "", NilSchema, "", NameP) }

LaterParamMenu ==
    { ParamT("", "", FALSE, "", NilSchema, "", RefTo("parameters", NameP)),
      ParamT("h", "query", FALSE, "", Schema("", RefTo("schemas", Missing)), "", <<>>) }

\* request body slots
NilBodyT == [NilBody EXCEPT !.Content = NoMedia]

BodyMenu ==
    { NilBodyT,
      Body("payload", OneMedia(Schema("", RefTo("schemas", NameS))), <<>>),
      Body("local body", OneMedia(Schema("", RefTo("schemas", Missing))),
           RefTo("requestBodies", NameB)),
      Body("", NoMedia, RefTo("requestBodies", NameC)),
      Body("", NoMedia, RefTo("requestBodies", NameD)),
      Body("", NoMedia, RefTo("requestBodies", NameN)),
      Body("", NoMedia, RefTo("requestBodies", Missing)) }

\* response slots
RespMenu ==
    { NilBodyT,
      Body("done", OneMedia(Schema("", RefTo("schemas", NameS))), <<>>),
      Body("local response", NoMedia, RefTo("responses", NameO)),
      Body("", OneMedia(Schema("", RefTo("schemas", Missing))), RefTo("responses", NameO)),
      Body("", NoMedia, RefTo("responses", NameE)),
      Body("", NoMedia, RefTo("responses", NameN)),
      Body("", NoMedia, RefTo("responses", Missing)) }

LaterRespMenu ==
    { Body("not found", NoMedia, <<>>),
      Body("", NoMedia, RefTo("responses", Percent)) }

Codes == {"200", "404"}

RespMaps ==
    UNION { { f \in [D -> RespMenu \cup LaterRespMenu] :
                \A c \in D : IF c = "200" THEN f[c] \in RespMenu
                                          ELSE f[c] \in LaterRespMenu }
            : D \in SUBSET Codes }

SeqsUpTo(S, n) == UNION { [1..k -> S] : k \in 0..n }

ParamLists ==
    {<<>>} \cup { <<p>> \o rest : p \in ParamMenu,
                                  rest \in SeqsUpTo(LaterParamMenu, MaxParams - 1) }

EndpointT(params, body, resps) == [params |-> params, body |-> body, resps |-> resps]

\* The first endpoint draws one of its three parts from the whole menu and the
\* other two from these.
FewParamLists ==
    { <<>>,
      <<ParamT("local", "cookie", TRUE, "local", NilSchema, "local",
               RefTo("parameters", NameP))>> }

FewBodies ==
    { NilBodyT,
      Body("local body", OneMedia(Schema("", RefTo("schemas", Missing))),
           RefTo("requestBodies", NameB)) }

FewRespMaps ==
    { [c \in {} |-> NilBodyT],
      [c \in {"200"} |-> Body("done", OneMedia(Schema("", RefTo("schemas", NameS))), <<>>)],
      [c \in Codes |-> IF c = "200" THEN Body("local response", NoMedia, RefTo("responses", NameO))
                                    ELSE Body("not found", NoMedia, <<>>)] }

FirstEndpoints ==
    { EndpointT(ps, b, r) : ps \in ParamLists, b \in FewBodies, r \in FewRespMaps }
    \cup { EndpointT(ps, b, r) : ps \in FewParamLists, b \in BodyMenu, r \in FewRespMaps }
    \cup { EndpointT(ps, b, r) : ps \in FewParamLists, b \in FewBodies, r \in RespMaps }

LaterEndpoints ==
    { EndpointT(<<ParamT("", "", FALSE, "", NilSchema, "", RefTo("parameters", NameP))>>,
                Body("", NoMedia, RefTo("requestBodies", NameB)),
                [c \in {"200"} |-> Body("", NoMedia, RefTo("responses", NameO))]),
      EndpointT(<<>>, NilBodyT,
                [c \in {"200"} |-> Body("", NoMedia, RefTo("responses", Missing))]) }

EndpointLists ==
    {<<>>} \cup { <<first>> \o rest : first \in FirstEndpoints,
                                      rest \in SeqsUpTo(LaterEndpoints, MaxEndpoints - 1) }

PathNames == <<"/a", "/b", "/c", "/d", "/e">>

(***************************************************************************)
(* Decoding: the document and the heaps the decoder (json.Unmarshal or     *)
(* yaml.Unmarshal into APIDocument) builds from the templates.             *)
(***************************************************************************)
\* addrOf maps each media type to the address its MediaType object is placed at
AllocBody(t, addrOf) ==
    IF t.nil THEN NilBody
    ELSE Body(t.Description,
              [m \in DOMAIN t.Content |-> IF t.Content[m].nil THEN NilAddr ELSE addrOf[m]],
              t.Ref)

MediaOf(t) == DOMAIN t.Content

AllocEndpoint(e, t) ==
    [Path |-> PathNames[e],
     Method |-> IF e = 1 THEN "get" ELSE "POST",
     Summary |-> "S",
     Description |-> IF e = 1 THEN <<"a", "\n", "\n", " ", " ", "b", "\t", "c">> ELSE <<>>,
     Parameters |-> [k \in 1..Len(t.params) |->
                        IF t.params[k].nil THEN NilAddr ELSE SlotParamAddr(e, k)],
     RequestBody |-> AllocBody(t.body, [m \in MediaOf(t.body) |-> SlotBodyMt(e, m)]),
     Responses |-> [c \in DOMAIN t.resps |->
                        AllocBody(t.resps[c], [m \in MediaOf(t.resps[c]) |-> SlotRespMt(e, c, m)])]]

NilComponents ==
    [nil |-> TRUE, Schemas |-> [k \in {} |-> NilSchema], Parameters |-> [k \in {} |-> NilAddr],
     RequestBodies |-> [k \in {} |-> NilBody], Responses |-> [k \in {} |-> NilBody]]

AllocComponents ==
    [nil |-> FALSE,
     Schemas |-> CompSchemas,
     Parameters |-> [k \in DOMAIN CompParamT |->
                        IF CompParamT[k].nil THEN NilAddr ELSE CompParamAddr(k)],
     RequestBodies |-> [k \in DOMAIN CompBodyT |->
                        AllocBody(CompBodyT[k], [m \in MediaOf(CompBodyT[k]) |-> CompBodyMt(k, m)])],
     Responses |-> [k \in DOMAIN CompRespT |->
                        AllocBody(CompRespT[k], [m \in MediaOf(CompRespT[k]) |-> CompRespMt(k, m)])]]

Heap(pairs) == [a \in {p[1] : p \in pairs} |-> (CHOOSE p \in pairs : p[1] = a)[2]]

MtOf(t, addrOf) ==
    { <<addrOf[m], [Schema |-> t.Content[m].Schema]>> :
        m \in {m \in MediaOf(t) : ~t.Content[m].nil} }

ParamObjects(ts, withComponents) ==
    UNION { { <<SlotParamAddr(e, k), ts[e].params[k].val>> :
                k \in {k \in 1..Len(ts[e].params) : ~ts[e].params[k].nil} }
            : e \in 1..Len(ts) }
    \cup (IF withComponents
          THEN { <<CompParamAddr(k), CompParamT[k].val>> :
                    k \in {k \in DOMAIN CompParamT : ~CompParamT[k].nil} }
          ELSE {})

MtObjects(ts, withComponents) ==
    UNION { MtOf(ts[e].body, [m \in MediaOf(ts[e].body) |-> SlotBodyMt(e, m)])
            : e \in 1..Len(ts) }
    \cup UNION { UNION { MtOf(ts[e].resps[c],
                               [m \in MediaOf(ts[e].resps[c]) |-> SlotRespMt(e, c, m)])
                         : c \in DOMAIN ts[e].resps }
                 : e \in 1..Len(ts) }
    \cup (IF withComponents
          THEN UNION { MtOf(CompBodyT[k], [m \in MediaOf(CompBodyT[k]) |-> CompBodyMt(k, m)])
                       : k \in DOMAIN CompBodyT }
               \cup UNION { MtOf(CompRespT[k], [m \in MediaOf(CompRespT[k]) |-> CompRespMt(k, m)])
                            : k \in DOMAIN CompRespT }
          ELSE {})

Decode(ts, withComponents) ==
    [Title |-> "T", Version |-> "1", Description |-> <<>>,
     Endpoints |-> [e \in 1..Len(ts) |-> AllocEndpoint(e, ts[e])],
     Servers |-> <<>>,
     Components |-> IF withComponents THEN AllocComponents ELSE NilComponents]

EmptySwagger == [Info |-> [Title |-> "", Description |-> <<>>, Version |-> ""],
                 Paths |-> [p \in {} |-> <<>>]]

Snapshot(d, ph, mh) == [doc |-> d, paramHeap |-> ph, mtHeap |-> mh]

Init ==
    \E ts \in EndpointLists, withComponents \in BOOLEAN :
        /\ doc = Decode(ts, withComponents)
        /\ paramHeap = Heap(ParamObjects(ts, withComponents))
        /\ mtHeap = Heap(MtObjects(ts, withComponents))
        /\ pc = "idle" /\ i = 0 /\ j = 0 /\ todo = {}
        /\ result = "none" /\ err = <<>> /\ calls = 0
        /\ pre = Snapshot(doc, paramHeap, mtHeap)
        /\ visited = <<>>
        /\ text = <<>> /\ prevText = <<>> /\ renderPanic = FALSE
        /\ sw = EmptySwagger /\ pathsLeft = {}

(***************************************************************************)
(* ResolveReferences.                                                      *)
(***************************************************************************)
Outcome(status, d, ph, mh, msg) ==
    [status |-> status, doc |-> d, paramHeap |-> ph, mtHeap |-> mh, err |-> msg]

\* (the nil check left out)
ComponentsNeverAbsent(d) == FALSE

\* if doc.Components == nil { return nil }
ComponentsAbsent(d) == d.Components.nil

\* (the assignment left out: the slot keeps the referencing object)
KeepReferencing(old, resolved) == old

\* ep.Parameters[j] = resolved; ep.RequestBody = resolved; ep.Responses[code] = resolved
StoreResolved(old, resolved) == resolved

\* resolveSchema(s, doc): the new value of *s, or the error.  A lookup in the
\* tables of a nil doc.Components dereferences nil.
resolveSchema(s, d) ==
    IF s.nil \/ s.Ref = <<>> THEN [status |-> "ok", schema |-> s, err |-> <<>>]
    ELSE IF d.Components.nil THEN [status |-> "panic", schema |-> s, err |-> <<>>]
    ELSE LET refName == extractNameFromRef(s.Ref, "schemas") IN
         IF refName \in DOMAIN d.Components.Schemas
         THEN [status |-> "ok", schema |-> d.Components.Schemas[refName], err |-> <<>>]
         ELSE [status |-> "error", schema |-> s,
               err |-> Errorf(SprintfRef("unresolved schema reference: ", s.Ref))]

\* for _, mt := range content { if mt != nil && mt.Schema != nil { resolveSchema(&mt.Schema, doc) } }
\* with the range producing the keys in the given order
RECURSIVE ResolveContent(_, _, _, _)
ResolveContent(content, order, mh, d) ==
    IF order = <<>> THEN [status |-> "ok", mtHeap |-> mh, err |-> <<>>]
    ELSE LET m == Head(order)
             mt == content[m]
         IN  IF m \notin DOMAIN content \/ mt = NilAddr \/ mh[mt].Schema.nil
             THEN ResolveContent(content, Tail(order), mh, d)
             ELSE LET r == resolveSchema(mh[mt].Schema, d) IN
                  IF r.status # "ok"
                  THEN [status |-> r.status, mtHeap |-> mh, err |-> r.err]
                  ELSE ResolveContent(content, Tail(order),
                                      [mh EXCEPT ![mt].Schema = r.schema], d)

\* one iteration of "for j, param := range ep.Parameters"
ParameterStep(d, ph, mh, e, k) ==
    LET param == d.Endpoints[e].Parameters[k] IN
    IF param = NilAddr THEN Outcome("ok", d, ph, mh, <<>>)
    ELSE LET ref == ph[param].Ref
             refName == extractNameFromRef(ref, "parameters")
         IN  IF ref # <<>> /\ d.Components.nil THEN Outcome("panic", d, ph, mh, <<>>)
             ELSE IF ref # <<>> /\ refName \notin DOMAIN d.Components.Parameters
             THEN Outcome("error", d, ph, mh,
                          Errorf(SprintfRef("unresolved parameter reference: ", ref)))
             ELSE LET d1 == IF ref = <<>> THEN d
                            ELSE [d EXCEPT !.Endpoints[e].Parameters[k] =
                                    StoreResolved(param, d.Components.Parameters[refName])]
                      r == resolveSchema(ph[param].Schema, d)
                  IN  Outcome(r.status, d1, [ph EXCEPT ![param].Schema = r.schema], mh, r.err)

\* "if ep.RequestBody != nil { ... }"
RequestBodyStep(d, ph, mh, e, order) ==
    LET body == d.Endpoints[e].RequestBody IN
    IF body.nil THEN Outcome("ok", d, ph, mh, <<>>)
    ELSE LET ref == body.Ref
             refName == extractNameFromRef(ref, "requestBodies")
         IN  IF ref # <<>> /\ d.Components.nil THEN Outcome("panic", d, ph, mh, <<>>)
             ELSE IF ref # <<>> /\ refName \notin DOMAIN d.Components.RequestBodies
             THEN Outcome("error", d, ph, mh,
                          Errorf(SprintfRef("unresolved requestBody reference: ", ref)))
             ELSE LET body1 == IF ref = <<>> THEN body
                               ELSE StoreResolved(body, d.Components.RequestBodies[refName])
                      d1 == [d EXCEPT !.Endpoints[e].RequestBody = body1]
                  IN  \* ep.RequestBody.Content reads through the slot as it is now
                      IF body1.nil THEN Outcome("panic", d1, ph, mh, <<>>)
                      ELSE LET r == ResolveContent(body1.Content, order, mh, d1) IN
                           Outcome(r.status, d1, ph, r.mtHeap, r.err)

\* one iteration of "for code, resp := range ep.Responses"
ResponseStep(d, ph, mh, e, code, order) ==
    LET resp == d.Endpoints[e].Responses[code] IN
    IF resp.nil THEN Outcome("ok", d, ph, mh, <<>>)
    ELSE LET ref == resp.Ref
             refName == extractNameFromRef(ref, "responses")
         IN  IF ref # <<>> /\ d.Components.nil THEN Outcome("panic", d, ph, mh, <<>>)
             ELSE IF ref # <<>> /\ refName \notin DOMAIN d.Components.Responses
             THEN Outcome("error", d, ph, mh,
                          Errorf(SprintfRef("unresolved response reference: ", ref)))
             ELSE LET d1 == IF ref = <<>> THEN d
                            ELSE [d EXCEPT !.Endpoints[e].Responses[code] =
                                    StoreResolved(resp, d.Components.Responses[refName])]
                      \* resp.Content reads through the range variable
                      r == ResolveContent(resp.Content, order, mh, d1)
                  IN  Outcome(r.status, d1, ph, r.mtHeap, r.err)

Media == {JSON}
\* the orders in which a range over a map with these keys can produce them
Orders(S) == { f \in [1..Cardinality(S) -> S] : \A x \in S : \E n \in DOMAIN f : f[n] = x }

Slot(e, kind, k, code) == [e |-> e, kind |-> kind, k |-> k, code |-> code]

Return(res, msg) ==
    /\ pc' = "idle" /\ i' = 0 /\ j' = 0 /\ todo' = {}
    /\ result' = res /\ err' = msg

EnterEndpoint(e, d) ==
    IF e > Len(d.Endpoints) THEN Return("ok", <<>>)
    ELSE /\ pc' = IF Len(d.Endpoints[e].Parameters) > 0 THEN "params" ELSE "body"
         /\ i' = e /\ j' = 1 /\ todo' = DOMAIN d.Endpoints[e].Responses
         /\ result' = "none" /\ err' = <<>>

Apply(o) ==
    /\ doc' = o.doc /\ paramHeap' = o.paramHeap /\ mtHeap' = o.mtHeap

ResolveCall ==
    /\ pc = "idle" /\ calls < MaxCalls /\ result \in {"none", "ok"} /\ ~renderPanic
    /\ calls' = calls + 1
    /\ pre' = Snapshot(doc, paramHeap, mtHeap)
    /\ visited' = <<>> /\ text' = <<>> /\ prevText' = <<>>
    /\ IF ComponentsAbsent(doc) THEN Return("ok", <<>>) ELSE EnterEndpoint(1, doc)
    /\ UNCHANGED <<doc, paramHeap, mtHeap, renderPanic, sw, pathsLeft>>

ResolveParameter ==
    /\ pc = "params"
    /\ LET o == ParameterStep(doc, paramHeap, mtHeap, i, j) IN
        /\ Apply(o)
        /\ visited' = Append(visited, Slot(i, "param", j, ""))
        /\ IF o.status # "ok" THEN Return(o.status, o.err)
           ELSE /\ pc' = IF j < Len(doc.Endpoints[i].Parameters) THEN "params" ELSE "body"
                /\ j' = j + 1
                /\ UNCHANGED <<i, todo, result, err>>
    /\ UNCHANGED <<calls, pre, text, prevText, renderPanic, sw, pathsLeft>>

ResolveRequestBody ==
    /\ pc = "body"
    /\ \E order \in Orders(Media) :
        LET o == RequestBodyStep(doc, paramHeap, mtHeap, i, order) IN
        /\ Apply(o)
        /\ visited' = Append(visited, Slot(i, "body", 0, ""))
        /\ IF o.status # "ok" THEN Return(o.status, o.err)
           ELSE IF todo = {} THEN EnterEndpoint(i + 1, doc)
           ELSE /\ pc' = "responses"
                /\ UNCHANGED <<i, j, todo, result, err>>
    /\ UNCHANGED <<calls, pre, text, prevText, renderPanic, sw, pathsLeft>>

ResolveResponse ==
    /\ pc = "responses"
    /\ \E code \in todo, order \in Orders(Media) :
        LET o == ResponseStep(doc, paramHeap, mtHeap, i, code, order) IN
        /\ Apply(o)
        /\ visited' = Append(visited, Slot(i, "response", 0, code))
        /\ IF o.status # "ok" THEN Return(o.status, o.err)
           ELSE IF todo = {code} THEN EnterEndpoint(i + 1, doc)
           ELSE /\ todo' = todo \ {code}
                /\ UNCHANGED <<pc, i, j, result, err>>
    /\ UNCHANGED <<calls, pre, text, prevText, renderPanic, sw, pathsLeft>>

(***************************************************************************)
(* RenderText.  The text is the sequence of the tokens written to the      *)
(* strings.Builder; an empty string writes nothing.                        *)
(***************************************************************************)
TruncateOver == 20000
TruncateTo == 2000

Whitespace == {" ", "\t", "\n", "\r", "\f"}

Tok(s) == IF s = "" THEN <<>> ELSE <<s>>

\* strings.Fields: the maximal runs of non-whitespace characters
RECURSIVE Fields(_, _)
Fields(s, word) ==
    IF s = <<>> THEN (IF word = <<>> THEN <<>> ELSE <<word>>)
    ELSE IF Head(s) \in Whitespace
         THEN (IF word = <<>> THEN <<>> ELSE <<word>>) \o Fields(Tail(s), <<>>)
         ELSE Fields(Tail(s), Append(word, Head(s)))

\* strings.Join
RECURSIVE Join(_, _)
Join(words, sep) ==
    IF words = <<>> THEN <<>>
    ELSE IF Len(words) = 1 THEN words[1]
    ELSE words[1] \o sep \o Join(Tail(words), sep)

minifyText(s) == Join(Fields(s, <<>>), <<" ">>)

\* strings.ToUpper on the method names of the model
ToUpper(s) ==
    CASE s = "get" -> "GET"
      [] s = "post" -> "POST"
      [] OTHER -> s

FormatBool(b) == IF b THEN "true" ELSE "false"

RenderParameter(p) ==
    LET pType == IF p.Type # "" THEN p.Type
                 ELSE IF ~p.Schema.nil THEN p.Schema.Type
                 ELSE "(unknown)"
    IN  <<"  - ">> \o Tok(p.Name) \o <<" (">> \o Tok(pType) \o <<", ">> \o Tok(p.In)
        \o <<", required=", FormatBool(p.Required), ")">>
        \o (IF p.Description # "" THEN <<" : ", p.Description>> ELSE <<>>)
        \o <<"\n">>

RECURSIVE RenderParameters(_, _)
RenderParameters(params, ph) ==
    IF params = <<>> THEN <<>>
    ELSE RenderParameter(ph[Head(params)]) \o RenderParameters(Tail(params), ph)

\* "for code, resp := range ep.Responses" producing the codes in the given order
RECURSIVE RenderResponses(_, _)
RenderResponses(responses, order) ==
    IF order = <<>> THEN <<>>
    ELSE (IF Head(order) \in DOMAIN responses
          THEN <<"  - ", Head(order), ": ">> \o Tok(responses[Head(order)].Description)
               \o <<"\n">>
          ELSE <<>>)
         \o RenderResponses(responses, Tail(order))

RenderEndpoint(ep, ph, order) ==
    LET collapsed == minifyText(ep.Description)
        desc == IF Len(collapsed) > TruncateOver
                THEN SubSeq(collapsed, 1, TruncateTo) \o <<"...">>
                ELSE collapsed
    IN  <<"ENDPOINT: ", ToUpper(ep.Method), " ", ep.Path, "\n">>
        \o <<"SUMMARY: ">> \o Tok(ep.Summary) \o <<"\n">>
        \o (IF desc = <<>> THEN <<"DESCRIPTION: (None)\n">>
            ELSE <<"DESCRIPTION: ">> \o desc \o <<"\n">>)
        \o <<"PARAMETERS:\n">>
        \o (IF Len(ep.Parameters) = 0 THEN <<"  (None)\n">>
            ELSE RenderParameters(ep.Parameters, ph))
        \o <<"REQUEST BODY: ">>
        \o (IF ~ep.RequestBody.nil /\ ep.RequestBody.Description # ""
            THEN <<ep.RequestBody.Description>> ELSE <<"None">>)
        \o <<"\n">>
        \o <<"RESPONSES:\n">>
        \o (IF DOMAIN ep.Responses = {} THEN <<"  (None)\n">>
            ELSE RenderResponses(ep.Responses, order))
        \o <<"END\n">>

\* p.Type with p == nil, resp.Description with resp == nil
RenderDereferencesNil(d) ==
    \E e \in 1..Len(d.Endpoints) :
        \/ \E k \in 1..Len(d.Endpoints[e].Parameters) : d.Endpoints[e].Parameters[k] = NilAddr
        \/ \E c \in DOMAIN d.Endpoints[e].Responses : d.Endpoints[e].Responses[c].nil

RECURSIVE RenderEndpoints(_, _, _, _)
RenderEndpoints(d, ph, orders, e) ==
    IF e > Len(d.Endpoints) THEN <<>>
    ELSE RenderEndpoint(d.Endpoints[e], ph, orders[e]) \o RenderEndpoints(d, ph, orders, e + 1)

RenderTextOf(d, ph, orders) ==
    <<"API: ">> \o Tok(d.Title) \o <<" (v">> \o Tok(d.Version) \o <<")\n\n">>
    \o <<"DESCRIPTION:\n">>
    \o (IF d.Description # <<>> THEN d.Description ELSE <<"(None or your description here)">>)
    \o <<"\n\n">>
    \o RenderEndpoints(d, ph, orders, 1)

\* for each endpoint, an order in which the range over its Responses produces the codes
ResponseOrders(d) ==
    { f \in [1..Len(d.Endpoints) ->
                UNION { Orders(DOMAIN d.Endpoints[e].Responses) : e \in 1..Len(d.Endpoints) }] :
        \A e \in 1..Len(d.Endpoints) : f[e] \in Orders(DOMAIN d.Endpoints[e].Responses) }

RenderText ==
    /\ pc = "idle" /\ result \in {"none", "ok"} /\ ~renderPanic
    /\ \E orders \in ResponseOrders(doc) :
        IF RenderDereferencesNil(doc)
        THEN /\ renderPanic' = TRUE
             /\ UNCHANGED <<text, prevText>>
        ELSE /\ text' = RenderTextOf(doc, paramHeap, orders)
             /\ prevText' = text
             /\ UNCHANGED renderPanic
    /\ UNCHANGED <<doc, paramHeap, mtHeap, pc, i, j, todo, result, err, calls, pre,
                   visited, sw, pathsLeft>>

(***************************************************************************)
(* Swagger 2.0 conversion.                                                 *)
(***************************************************************************)
NilOperation ==
    [nil |-> TRUE, Summary |-> "", Description |-> <<>>, OperationID |-> "",
     Parameters |-> <<>>, Responses |-> [c \in {} |-> NilBody]]

Operation(summary, description, parameters, responses) ==
    [nil |-> FALSE, Summary |-> summary, Description |-> description, OperationID |-> "",
     Parameters |-> parameters, Responses |-> responses]

\* the operations of the model's Swagger documents, one per method
OperationFor(method) ==
    CASE method = "GET" ->
            Operation("read", <<"r">>,
                      <<Parameter("id", "path", TRUE, "string", NilSchema, "", <<>>)>>,
                      [c \in {"200"} |-> Body("OK", NoContent, <<>>)])
      [] method = "POST" ->
            Operation("create", <<>>,
                      <<Parameter("body", "body", TRUE, "", Schema("object", <<>>), "", <<>>),
                        Parameter("dry", "query", FALSE, "boolean", NilSchema, "", <<>>)>>,
                      [c \in Codes |-> Body(IF c = "200" THEN "OK" ELSE "not found",
                                            NoContent, <<>>)])
      [] OTHER -> Operation("op", <<>>, <<>>, [c \in {} |-> NilBody])

PathItem(methods) ==
    LET op(method) == IF method \in methods THEN OperationFor(method) ELSE NilOperation IN
    [Get |-> op("GET"), Put |-> op("PUT"), Post |-> op("POST"), Delete |-> op("DELETE"),
     Options |-> op("OPTIONS"), Head |-> op("HEAD"), Patch |-> op("PATCH")]

Methods == {"GET", "PUT", "POST", "DELETE", "OPTIONS", "HEAD", "PATCH"}

\* the first path takes any set of operations, the other paths one of these
FewMethodSets == { {}, {"GET"}, {"POST", "PATCH"}, Methods }

SwaggerSpecs ==
    { [Info |-> [Title |-> "T", Description |-> <<>>, Version |-> "1"],
       Paths |-> [p \in {PathNames[n] : n \in 1..Len(items)} |->
                    items[CHOOSE n \in 1..Len(items) : PathNames[n] = p]]]
      : items \in {<<>>} \cup
                  { <<PathItem(ms)>> \o rest :
                        ms \in SUBSET Methods,
                        rest \in SeqsUpTo({PathItem(f) : f \in FewMethodSets}, MaxPaths - 1) } }

\* (the PATCH block left out)
MethodChecksWithoutPatch ==
    << [field |-> "Get", method |-> "GET"],
       [field |-> "Post", method |-> "POST"],
       [field |-> "Put", method |-> "PUT"],
       [field |-> "Delete", method |-> "DELETE"],
       [field |-> "Head", method |-> "HEAD"],
       [field |-> "Options", method |-> "OPTIONS"] >>

\* the "if item.X != nil" blocks of the loop body, in the order of the code
MethodChecks ==
    << [field |-> "Get", method |-> "GET"],
       [field |-> "Post", method |-> "POST"],
       [field |-> "Put", method |-> "PUT"],
       [field |-> "Delete", method |-> "DELETE"],
       [field |-> "Patch", method |-> "PATCH"],
       [field |-> "Head", method |-> "HEAD"],
       [field |-> "Options", method |-> "OPTIONS"] >>

\* convertParameters: one new Parameter object per element, holding a copy
convertParameters(params, e) == [k \in 1..Len(params) |-> SlotParamAddr(e, k)]

\* convertResponses: a new map holding a pointer to a copy of each response
convertResponses(responses) == [c \in DOMAIN responses |-> responses[c]]

\* createEndpointFromOperation; e is the index the endpoint is appended at
createEndpointFromOperation(path, method, op, e) ==
    [Path |-> path, Method |-> method, Summary |-> op.Summary,
     Description |-> op.Description,
     Parameters |-> convertParameters(op.Parameters, e),
     RequestBody |-> NilBody,
     Responses |-> convertResponses(op.Responses)]

\* the body of "for path, item := range sw.Paths" for one path
RECURSIVE ConvertItem(_, _, _, _, _)
ConvertItem(d, ph, path, item, checks) ==
    IF checks = <<>> THEN [doc |-> d, paramHeap |-> ph]
    ELSE LET op == item[Head(checks).field]
             e == Len(d.Endpoints) + 1
         IN  IF op.nil THEN ConvertItem(d, ph, path, item, Tail(checks))
             ELSE ConvertItem(
                    [d EXCEPT !.Endpoints =
                        Append(@, createEndpointFromOperation(path, Head(checks).method, op, e))],
                    [a \in DOMAIN ph \cup {SlotParamAddr(e, k) : k \in 1..Len(op.Parameters)} |->
                        IF a \in DOMAIN ph THEN ph[a] ELSE op.Parameters[a.b]],
                    path, item, Tail(checks))

\* doc := APIDocument{...} of convertSwaggerToAPIDocument
NewDocument(s) ==
    [Title |-> s.Info.Title, Version |-> s.Info.Version, Description |-> s.Info.Description,
     Endpoints |-> <<>>, Servers |-> <<>>, Components |-> NilComponents]

InitConvert ==
    \E s \in SwaggerSpecs :
        /\ sw = s
        /\ doc = NewDocument(s)
        /\ paramHeap = Heap({})
        /\ mtHeap = Heap({})
        /\ pathsLeft = DOMAIN s.Paths
        /\ pc = IF DOMAIN s.Paths = {} THEN "idle" ELSE "convert"
        /\ i = 0 /\ j = 0 /\ todo = {}
        /\ result = "none" /\ err = <<>> /\ calls = 0
        /\ pre = Snapshot(doc, paramHeap, mtHeap)
        /\ visited = <<>>
        /\ text = <<>> /\ prevText = <<>> /\ renderPanic = FALSE

ConvertPath ==
    /\ pc = "convert"
    /\ \E path \in pathsLeft :
        LET o == ConvertItem(doc, paramHeap, path, sw.Paths[path], MethodChecks) IN
        /\ doc' = o.doc
        /\ paramHeap' = o.paramHeap
        /\ pathsLeft' = pathsLeft \ {path}
        /\ pc' = IF pathsLeft = {path} THEN "idle" ELSE "convert"
    /\ UNCHANGED <<mtHeap, i, j, todo, result, err, calls, pre, visited, text, prevText,
                   renderPanic, sw>>

NextConvert == ConvertPath

SpecConvert == InitConvert /\ [][NextConvert]_vars

Next ==
    \/ ResolveCall
    \/ ResolveParameter
    \/ ResolveRequestBody
    \/ ResolveResponse
    \/ RenderText

Spec == Init /\ [][Next]_vars

(***************************************************************************)
(* Properties.                                                             *)
(***************************************************************************)
\* the value a *Parameter, *RequestBody or *Response points to, read through the heaps
ParamValue(a, ph) ==
    IF a = NilAddr THEN NilParamT ELSE [nil |-> FALSE, val |-> ph[a]]

BodyValue(b, mh) ==
    [nil |-> b.nil, Description |-> b.Description, Ref |-> b.Ref,
     Content |-> [m \in DOMAIN b.Content |->
                    IF b.Content[m] = NilAddr THEN NilMt ELSE Mt(mh[b.Content[m]].Schema)]]

ComponentsValue(st) ==
    LET c == st.doc.Components IN
    [nil |-> c.nil,
     Schemas |-> c.Schemas,
     Parameters |-> [k \in DOMAIN c.Parameters |-> ParamValue(c.Parameters[k], st.paramHeap)],
     RequestBodies |-> [k \in DOMAIN c.RequestBodies |-> BodyValue(c.RequestBodies[k], st.mtHeap)],
     Responses |-> [k \in DOMAIN c.Responses |-> BodyValue(c.Responses[k], st.mtHeap)]]

Now == Snapshot(doc, paramHeap, mtHeap)

\* the value held by a slot of the document in a snapshot
SlotValue(st, slot) ==
    LET ep == st.doc.Endpoints[slot.e] IN
    CASE slot.kind = "param" -> ParamValue(ep.Parameters[slot.k], st.paramHeap)
      [] slot.kind = "body" -> BodyValue(ep.RequestBody, st.mtHeap)
      [] slot.kind = "response" -> BodyValue(ep.Responses[slot.code], st.mtHeap)

Slots(d) ==
    UNION { { Slot(e, "param", k, "") : k \in 1..Len(d.Endpoints[e].Parameters) }
            \cup { Slot(e, "body", 0, "") }
            \cup { Slot(e, "response", 0, c) : c \in DOMAIN d.Endpoints[e].Responses }
            : e \in 1..Len(d.Endpoints) }

\* a reference descriptor that names a key of the table / of no key of the table
NamesPresent(ref, componentType, table) ==
    ref # <<>> /\ extractNameFromRef(ref, componentType) \in DOMAIN table
Dangles(ref, componentType, table) ==
    ref # <<>> /\ extractNameFromRef(ref, componentType) \notin DOMAIN table

ComponentType(slot) ==
    CASE slot.kind = "param" -> "parameters"
      [] slot.kind = "body" -> "requestBodies"
      [] slot.kind = "response" -> "responses"

Table(c, slot) ==
    CASE slot.kind = "param" -> c.Parameters
      [] slot.kind = "body" -> c.RequestBodies
      [] slot.kind = "response" -> c.Responses

\* the reference descriptor of the object a slot held when the call started (<<>>: none)
RefBefore(slot) ==
    LET v == SlotValue(pre, slot) IN
    IF v.nil THEN <<>> ELSE IF slot.kind = "param" THEN v.val.Ref ELSE v.Ref

\* the value of the component a slot's descriptor names, as it is now
NamedComponent(slot) ==
    LET name == extractNameFromRef(RefBefore(slot), ComponentType(slot))
        entry == Table(doc.Components, slot)[name]
    IN  IF slot.kind = "param" THEN ParamValue(entry, paramHeap) ELSE BodyValue(entry, mtHeap)

ReturnedOk == pc = "idle" /\ calls >= 1 /\ result = "ok"
ReturnedError == pc = "idle" /\ calls >= 1 /\ result = "error"

\* C1: after a successful ResolveReferences on a document with components, every
\* slot that held a Parameter, RequestBody or Response whose reference descriptor
\* names a key present in the matching table holds the component's value as a
\* whole: no field of the referencing object is left in it.
C1_WholesaleReplacement ==
    (ReturnedOk /\ ~pre.doc.Components.nil) =>
        \A slot \in Slots(doc) :
            NamesPresent(RefBefore(slot), ComponentType(slot), Table(pre.doc.Components, slot))
                => SlotValue(Now, slot) = NamedComponent(slot)

\* a first call succeeded on an endpoint whose parameter, request body and response
\* each named a present component, and the parameter slot no longer holds what it held
C1_Witness ==
    /\ ReturnedOk /\ calls = 1 /\ ~pre.doc.Components.nil
    /\ \E e \in 1..Len(doc.Endpoints) :
        /\ \E slot \in Slots(doc) :
            /\ slot.e = e /\ slot.kind = "param"
            /\ NamesPresent(RefBefore(slot), "parameters", pre.doc.Components.Parameters)
            /\ SlotValue(Now, slot) # SlotValue(pre, slot)
        /\ \E slot \in Slots(doc) :
            /\ slot.e = e /\ slot.kind = "body"
            /\ NamesPresent(RefBefore(slot), "requestBodies", pre.doc.Components.RequestBodies)
        /\ \E slot \in Slots(doc) :
            /\ slot.e = e /\ slot.kind = "response"
            /\ NamesPresent(RefBefore(slot), "responses", pre.doc.Components.Responses)

\* the reference descriptors held by a Parameter, RequestBody or Response value,
\* its nested schemas' included, each with the table it is looked up in
HeldBy(v, kind) ==
    IF v.nil THEN {}
    ELSE IF kind = "param"
         THEN {<<v.val.Ref, "parameters">>, <<v.val.Schema.Ref, "schemas">>}
         ELSE {<<v.Ref, IF kind = "body" THEN "requestBodies" ELSE "responses">>}
              \cup {<<v.Content[m].Schema.Ref, "schemas">> : m \in DOMAIN v.Content}

TableOf(c, componentType) ==
    CASE componentType = "schemas" -> c.Schemas
      [] componentType = "parameters" -> c.Parameters
      [] componentType = "requestBodies" -> c.RequestBodies
      [] componentType = "responses" -> c.Responses

\* those of the descriptors that name no key of their table (as the call found it)
Dangling(held) ==
    { h[1] : h \in { g \in held : Dangles(g[1], g[2], TableOf(pre.doc.Components, g[2])) } }

\* the component a slot's descriptor named when the call started, if it named one
NamedBefore(slot) ==
    IF NamesPresent(RefBefore(slot), ComponentType(slot), Table(pre.doc.Components, slot))
    THEN LET entry == Table(pre.doc.Components, slot)[
                        extractNameFromRef(RefBefore(slot), ComponentType(slot))]
         IN  IF slot.kind = "param" THEN ParamValue(entry, pre.paramHeap)
             ELSE BodyValue(entry, pre.mtHeap)
    ELSE IF slot.kind = "param" THEN NilParamT ELSE BodyValue(NilBody, pre.mtHeap)

Examined == { visited[n] : n \in 1..Len(visited) }
Failing == visited[Len(visited)]

\* C2: when ResolveReferences returns an error, the message contains, exactly as
\* written in the document, a descriptor of the slot it stopped at that names an
\* absent key, and no slot after that one has been examined or modified.
C2_ErrorNamesDescriptor ==
    ReturnedError =>
        /\ \E r \in Dangling(HeldBy(SlotValue(pre, Failing), Failing.kind)
                             \cup HeldBy(NamedBefore(Failing), Failing.kind)) :
                Contains(err, r)
        /\ \A slot \in Slots(doc) \ Examined : SlotValue(Now, slot) = SlotValue(pre, slot)

\* C3: a second call of ResolveReferences after a successful first call succeeds and
\* leaves the document, its slots and the Components table as the first call left them.
C3_SecondCallChangesNothing ==
    (pc = "idle" /\ calls = 2) => (result = "ok" /\ Now = pre)

\* C4: on a document without a Components table ResolveReferences returns success
\* and leaves the whole document unchanged, whatever descriptors it carries.
C4_NoComponentsNoOp ==
    (pc = "idle" /\ calls >= 1 /\ pre.doc.Components.nil) => (result = "ok" /\ Now = pre)

\* a call returned on a document without components whose parameter, request body
\* and response slots all carry reference descriptors
C4_Witness ==
    /\ pc = "idle" /\ calls = 1 /\ result = "ok" /\ pre.doc.Components.nil
    /\ \A kind \in {"param", "body", "response"} :
        \E slot \in Slots(doc) : slot.kind = kind /\ RefBefore(slot) # <<>>

OperationOf(item, method) ==
    CASE method = "GET" -> item.Get
      [] method = "PUT" -> item.Put
      [] method = "POST" -> item.Post
      [] method = "DELETE" -> item.Delete
      [] method = "OPTIONS" -> item.Options
      [] method = "HEAD" -> item.Head
      [] method = "PATCH" -> item.Patch

EndpointsFor(path, method) ==
    { e \in 1..Len(doc.Endpoints) :
        doc.Endpoints[e].Path = path /\ doc.Endpoints[e].Method = method }

\* C5: the converted document has exactly one Endpoint for each (path, method) whose
\* operation is present among the seven methods, with that path and upper-case
\* method, none for an absent operation, no RequestBody in any Endpoint and an
\* empty server list.
C5_OneEndpointPerOperation ==
    (pc = "idle" /\ pathsLeft = {}) =>
        /\ \A path \in DOMAIN sw.Paths, method \in Methods :
                Cardinality(EndpointsFor(path, method)) =
                    IF OperationOf(sw.Paths[path], method).nil THEN 0 ELSE 1
        /\ \A e \in 1..Len(doc.Endpoints) :
                /\ doc.Endpoints[e].Path \in DOMAIN sw.Paths
                /\ doc.Endpoints[e].Method \in Methods
                /\ doc.Endpoints[e].RequestBody.nil
        /\ doc.Servers = <<>>

\* the conversion returned for two paths, one of them with a present and an absent operation
C5_Witness ==
    /\ pc = "idle" /\ pathsLeft = {}
    /\ Cardinality(DOMAIN sw.Paths) >= 2
    /\ \E path \in DOMAIN sw.Paths :
        /\ ~sw.Paths[path].Patch.nil /\ sw.Paths[path].Get.nil
        /\ EndpointsFor(path, "PATCH") # {}

\* C6: RenderText returns a text without failing for every document, also one with
\* an absent Parameter slot or an absent Response.
C6_RenderNeverFails == ~renderPanic

\* C7: two calls of RenderText on a document not mutated in between return the same text.
C7_RenderRepeatable == prevText # <<>> => text = prevText

\* C8: when a Parameter slot is replaced by the component it names, the nested schema
\* reference that is resolved is the replacement's: after success the slot's schema
\* names no key present in Components.schemas, and an error at such a slot comes
\* from the replacement's schema, never from the discarded Parameter's.
C8_NestedSchemaOfReplacement ==
    /\ (ReturnedOk /\ ~pre.doc.Components.nil) =>
            \A slot \in Slots(doc) :
                (slot.kind = "param"
                 /\ NamesPresent(RefBefore(slot), "parameters", pre.doc.Components.Parameters))
                => LET v == SlotValue(Now, slot) IN
                   v.nil \/ ~NamesPresent(v.val.Schema.Ref, "schemas", doc.Components.Schemas)
    /\ (ReturnedError
        /\ Failing.kind = "param"
        /\ NamesPresent(RefBefore(Failing), "parameters", pre.doc.Components.Parameters))
            => Dangling(HeldBy(NamedBefore(Failing), "param")) # {}

\* C9: resolution is single-level: ResolveReferences leaves the Components table as
\* it found it, and fails only on a descriptor held by an object of an endpoint,
\* never on one held inside an entry of the Components table.
C9_ComponentsUntouched ==
    /\ (pc = "idle" /\ calls >= 1 /\ result \in {"ok", "error"}) =>
            ComponentsValue(Now) = ComponentsValue(pre)
    /\ (ReturnedError /\ calls = 1) =>
            \E slot \in Slots(doc) : Dangling(HeldBy(SlotValue(pre, slot), slot.kind)) # {}

\* C10: ResolveReferences returns success or a reference error; it never aborts.
C10_SuccessOrError == result # "panic"

====
